---- MODULE Spec2Model ----
(***************************************************************************)
(* Transaction admission and prologue validation of the Libra VM, as it is *)
(* exercised by language/e2e-tests/src/tests/verify_txn.rs.                *)
(*                                                                         *)
(* A FakeExecutor holds the ledger state (accounts, publishing option).    *)
(* A signed transaction is handed to verify_transaction (the admission     *)
(* gate) and/or to execute_transaction (the execution gate).  The checks   *)
(* both gates share are modelled by verify_transaction_impl; the checks    *)
(* only execution reaches are modelled by execute_verified_payload.        *)
(*                                                                         *)
(* Numbers are scaled down: gas units, prices, balances and byte sizes     *)
(* keep their order relations (below / equal / above each bound), not      *)
(* their production magnitudes.                                            *)
(***************************************************************************)
EXTENDS Integers, Sequences, FiniteSets, TLC

VARIABLES
    accounts,           \* address -> account resource (the ledger state)
    publishing_option,  \* the on-chain VMPublishingOption
    ledger,             \* the kept (recorded) transactions, oldest first
    txn,                \* the signed transaction under test
    pc,                 \* "submitted" | "verified" | "executed"
    verify_result,      \* what verify_transaction returned for txn
    admission_snapshot, \* the accounts verify_transaction read for txn
    output,             \* what execute_transaction returned for txn
    call,               \* arguments of a library function being called
    ret                 \* what that function returned

vars ==
    <<accounts, publishing_option, ledger, txn, pc, verify_result,
      admission_snapshot, output, call, ret>>

(***************************************************************************)
(* Gas constants (GasConstants::default()) and the size bound, scaled.     *)
(***************************************************************************)
min_transaction_gas_units == 2
maximum_number_of_gas_units == 4
min_price_per_gas_unit == 0
max_price_per_gas_unit == 2
MAX_TRANSACTION_SIZE_IN_BYTES == 8

\* Largest sequence number a transaction of the input set carries.
MaxSeq == 2

\* Largest value of the gas fields and of a balance (u64), scaled with the
\* gas constants: as 2^64 - 1 does, it lies above the largest fee that gas
\* fields within their bounds, or one above them, can amount to.
U64_MAX == (maximum_number_of_gas_units + 2) * (max_price_per_gas_unit + 2) - 1

(***************************************************************************)
(* Addresses, keys, chain ids, time.                                       *)
(***************************************************************************)
LIBRA_ROOT == "libra_root"
CORE_CODE_ADDRESS == "core_code"

\* Addresses that send transactions.  "bogus" has no account on the ledger.
Senders == {LIBRA_ROOT, "alice", "bogus"}

Keys == {"k1", "k2"}

\* The executing ledger's chain id is ChainId::test(), NamedChain::TESTING.
TESTING == 4
MAINNET == 0
ChainIds == {TESTING, MAINNET}

\* Ledger time at validation, and the expiration times transactions carry.
CurrentTime == 1
ExpirationTimes == {CurrentTime - 1, CurrentTime}

LBR_NAME == "LBR"

\* authentication key of a public key: a collision-free digest.
AuthenticationKey(public_key) == <<"auth", public_key>>

\* Ed25519 verification of the signature over the raw transaction: it holds
\* exactly when the signature was made with the private key of public_key.
VerifySignature(t) == t.signature = t.public_key

(***************************************************************************)
(* Scripts, modules and the whitelist.                                     *)
(***************************************************************************)
\* Script bytecode.  <<>> is the empty byte vector the tests call a random
\* (garbage) script.
P2P_BYTES == <<"peer_to_peer_with_metadata">>
CUSTOM_BYTES == <<"custom_script">>
BAD_DEP_BYTES == <<"imports_0x1_Test">>
EMPTY_BYTES == <<>>
MODULE_BYTES == <<"module_M">>

\* StdlibScript::all(), restricted to the scripts the transactions use.
StdlibScripts == {"peer_to_peer_with_metadata", "rotate_authentication_key"}

compiled_bytes(script) == <<script>>

\* HashValue::sha3_256_of
hash_bytes(bytes) == <<"sha3_256", bytes>>

\* StdlibScript::whitelist()
whitelist == {hash_bytes(compiled_bytes(s)) : s \in StdlibScripts}

\* A whitelist that is lifted by Open alone, so that CustomScripts shares
\* the gating of Locked.
is_allowed_script_open_only(option, code) ==
    \/ option = "Open"
    \/ hash_bytes(code) \in whitelist

\* VMPublishingOption::is_allowed_script
is_allowed_script(option, code) ==
    \/ option \in {"CustomScripts", "Open"}
    \/ hash_bytes(code) \in whitelist

\* VMPublishingOption::is_open: any account may publish modules
is_open(option) == option = "Open"

\* A deserializer that takes every byte vector for a script.
Deserializes_anything(code) == TRUE

\* Does the byte vector deserialize into a CompiledScript / CompiledModule?
Deserializes(code) == code # EMPTY_BYTES

\* The declared parameter types of a deserialized script's main.
ScriptSignature(code) ==
    IF code = P2P_BYTES THEN <<"address", "u64", "u8vector", "u8vector">>
    ELSE <<>>

\* A loader that links against stored modules without verifying them.
DependenciesVerify_unchecked(code) == TRUE

\* Do all modules the script links against pass the bytecode verifier?
DependenciesVerify(code) == code # BAD_DEP_BYTES

GoodArgs == <<"address", "u64", "u8vector", "u8vector">>
SwappedArgs == <<"u64", "address">>
\* All four arguments, the first two in each other's place.
ReorderedArgs == <<"u64", "address", "u8vector", "u8vector">>
NoArgs == <<>>
\* vec![TransactionArgument::U64(42); MAX_TRANSACTION_SIZE_IN_BYTES]
OversizedArgs == [i \in 1..MAX_TRANSACTION_SIZE_IN_BYTES |-> "u64"]
\* As many arguments as bring a one-unit script to the size bound exactly.
FullSizeArgs == [i \in 1..(MAX_TRANSACTION_SIZE_IN_BYTES - 2) |-> "u64"]

ScriptPayload(code, args) ==
    [kind |-> "Script", code |-> code, args |-> args, self_address |-> "none"]

ModulePayload(address) ==
    [kind |-> "Module", code |-> MODULE_BYTES, args |-> <<>>,
     self_address |-> address]

Payloads ==
    {ScriptPayload(P2P_BYTES, a) :
        a \in {GoodArgs, SwappedArgs, ReorderedArgs, NoArgs,
              FullSizeArgs, OversizedArgs}}
    \cup {ScriptPayload(CUSTOM_BYTES, a) : a \in {NoArgs, OversizedArgs}}
    \cup {ScriptPayload(EMPTY_BYTES, NoArgs), ScriptPayload(BAD_DEP_BYTES, NoArgs)}
    \cup {ModulePayload(a) : a \in {"alice", LIBRA_ROOT, CORE_CODE_ADDRESS}}

\* Serialized length of the raw transaction: a fixed header, the payload
\* code and one unit per argument.
raw_txn_bytes_len(t) == 1 + Len(t.payload.code) + Len(t.payload.args)

(***************************************************************************)
(* The transactions handed to the gates.                                   *)
(***************************************************************************)
GasAmounts ==
    {min_transaction_gas_units - 1, min_transaction_gas_units,
     maximum_number_of_gas_units, maximum_number_of_gas_units + 1}

GasPrices == {0, 1, max_price_per_gas_unit, max_price_per_gas_unit + 1}

Txns ==
    [sender : Senders,
     sequence_number : 0..MaxSeq,
     payload : Payloads,
     max_gas_amount : GasAmounts,
     gas_unit_price : GasPrices,
     gas_currency_code : {LBR_NAME},
     expiration_time : ExpirationTimes,
     chain_id : ChainIds,
     public_key : Keys,
     signature : Keys]

(***************************************************************************)
(* Ledger state after genesis and add_account_data.                        *)
(***************************************************************************)
NoAccount ==
    [exists |-> FALSE, authentication_key |-> <<"auth", "none">>,
     sequence_number |-> 0, balance |-> 0]

\* AccountData::new(balance, sequence_number)
AccountData(key, balance, seq) ==
    [exists |-> TRUE, authentication_key |-> AuthenticationKey(key),
     sequence_number |-> seq, balance |-> balance]

\* alice can pay min units at the maximum price exactly, and no more.
GenesisAccounts ==
    [a \in Senders |->
        CASE a = LIBRA_ROOT ->
                AccountData("k2",
                    maximum_number_of_gas_units * max_price_per_gas_unit, 1)
          [] a = "alice" ->
                AccountData("k1",
                    min_transaction_gas_units * max_price_per_gas_unit, 1)
          [] OTHER -> NoAccount]

PublishingOptions == {"Locked", "CustomScripts", "Open"}

(***************************************************************************)
(* Status codes and their classification.                                  *)
(***************************************************************************)
OK == "OK"
ACCEPTED == "ACCEPTED"
EXECUTED == "EXECUTED"

\* The codes of the checks both gates run.  UNKNOWN_SCRIPT and
\* INVALID_MODULE_PUBLISHER are among them: verify_transaction reports them,
\* and the tests assert them with assert_prologue_parity, like every other
\* code of this set (test_whitelist, test_publish_from_libra_root).
ValidationCodes ==
    {"BAD_CHAIN_ID", "TRANSACTION_EXPIRED", "SENDING_ACCOUNT_DOES_NOT_EXIST",
     "INVALID_SIGNATURE", "INVALID_AUTH_KEY", "SEQUENCE_NUMBER_TOO_OLD",
     "SEQUENCE_NUMBER_TOO_NEW", "INSUFFICIENT_BALANCE_FOR_TRANSACTION_FEE",
     "GAS_UNIT_PRICE_BELOW_MIN_BOUND", "GAS_UNIT_PRICE_ABOVE_MAX_BOUND",
     "MAX_GAS_UNITS_BELOW_MIN_TRANSACTION_GAS_UNITS",
     "MAX_GAS_UNITS_EXCEEDS_MAX_GAS_UNITS_BOUND",
     "EXCEEDED_MAX_TRANSACTION_SIZE", "UNKNOWN_SCRIPT",
     "INVALID_MODULE_PUBLISHER"}

VerificationCodes ==
    {"TYPE_MISMATCH", "MODULE_ADDRESS_DOES_NOT_MATCH_SENDER",
     "INVALID_RESOURCE_FIELD"}

DeserializationCodes == {"CODE_DESERIALIZATION_ERROR"}

\* VMStatus::status_type
status_type(code) ==
    CASE code \in ValidationCodes -> "Validation"
      [] code \in VerificationCodes -> "Verification"
      [] code \in DeserializationCodes -> "Deserialization"
      [] OTHER -> "Execution"

\* A classification that keeps successful transactions only.
TransactionStatus_from_success_only(code) ==
    IF code = EXECUTED
    THEN [kind |-> "Keep", code |-> code]
    ELSE [kind |-> "Discard", code |-> code]

\* TransactionStatus::from(VMStatus): a validation status discards the
\* transaction, every other status keeps it.
TransactionStatus_from(code) ==
    IF status_type(code) = "Validation"
    THEN [kind |-> "Discard", code |-> code]
    ELSE [kind |-> "Keep", code |-> code]

(***************************************************************************)
(* Gas and size policy: pure comparisons against the gas constants.        *)
(***************************************************************************)
check_size(len) ==
    IF len > MAX_TRANSACTION_SIZE_IN_BYTES
    THEN "EXCEEDED_MAX_TRANSACTION_SIZE" ELSE OK

\* A units check whose lower bound is exclusive.
check_max_gas_units_exclusive(max_gas_amount) ==
    IF max_gas_amount > maximum_number_of_gas_units
    THEN "MAX_GAS_UNITS_EXCEEDS_MAX_GAS_UNITS_BOUND"
    ELSE IF max_gas_amount <= min_transaction_gas_units
    THEN "MAX_GAS_UNITS_BELOW_MIN_TRANSACTION_GAS_UNITS"
    ELSE OK

check_max_gas_units(max_gas_amount) ==
    IF max_gas_amount > maximum_number_of_gas_units
    THEN "MAX_GAS_UNITS_EXCEEDS_MAX_GAS_UNITS_BOUND"
    ELSE IF max_gas_amount < min_transaction_gas_units
    THEN "MAX_GAS_UNITS_BELOW_MIN_TRANSACTION_GAS_UNITS"
    ELSE OK

check_gas_price(unit_price) ==
    IF unit_price < min_price_per_gas_unit
    THEN "GAS_UNIT_PRICE_BELOW_MIN_BOUND"
    ELSE IF unit_price > max_price_per_gas_unit
    THEN "GAS_UNIT_PRICE_ABOVE_MAX_BOUND"
    ELSE OK

\* The gas checks with the price compared before the number of units.
check_gas_price_before_units(t) ==
    IF check_size(raw_txn_bytes_len(t)) # OK
    THEN check_size(raw_txn_bytes_len(t))
    ELSE IF check_gas_price(t.gas_unit_price) # OK
    THEN check_gas_price(t.gas_unit_price)
    ELSE check_max_gas_units(t.max_gas_amount)

\* The gas checks with the size compared last.
check_gas_size_last(t) ==
    IF check_max_gas_units(t.max_gas_amount) # OK
    THEN check_max_gas_units(t.max_gas_amount)
    ELSE IF check_gas_price(t.gas_unit_price) # OK
    THEN check_gas_price(t.gas_unit_price)
    ELSE check_size(raw_txn_bytes_len(t))

\* The size and gas checks in the order they appear in verify_transaction,
\* which is the reverse of the order the tests build them up in: size, then
\* max gas units, then gas price.
check_gas(t) ==
    IF check_size(raw_txn_bytes_len(t)) # OK
    THEN check_size(raw_txn_bytes_len(t))
    ELSE IF check_max_gas_units(t.max_gas_amount) # OK
    THEN check_max_gas_units(t.max_gas_amount)
    ELSE check_gas_price(t.gas_unit_price)

\* A maximum fee computed in a word too narrow for the gas bounds.
max_transaction_fee_narrow(t) ==
    (t.max_gas_amount * t.gas_unit_price) % (maximum_number_of_gas_units + 1)

\* Maximum fee the transaction may cost, a u64 computed from two u64.  A
\* product beyond the width is taken to wrap around, the outcome that would
\* let an unaffordable transaction through.
max_transaction_fee(t) ==
    (t.max_gas_amount * t.gas_unit_price) % (U64_MAX + 1)

\* An affordability check that asks for more than the maximum fee.
check_balance_exclusive(t, accts) ==
    IF accts[t.sender].balance <= max_transaction_fee(t)
    THEN "INSUFFICIENT_BALANCE_FOR_TRANSACTION_FEE" ELSE OK

\* A prologue without the affordability check.
check_balance_unchecked(t, accts) == OK

check_balance(t, accts) ==
    IF accts[t.sender].balance < max_transaction_fee(t)
    THEN "INSUFFICIENT_BALANCE_FOR_TRANSACTION_FEE" ELSE OK

(***************************************************************************)
(* Prologue checks on the transaction and the sender's account.            *)
(***************************************************************************)
\* A sequence check that lets a replayed (old) sequence number through.
check_sequence_number_new_only(t, accts) ==
    IF t.sequence_number > accts[t.sender].sequence_number
    THEN "SEQUENCE_NUMBER_TOO_NEW"
    ELSE OK

\* A sequence check that still lets the transaction just kept through.
check_sequence_number_off_by_one(t, accts) ==
    IF t.sequence_number + 1 < accts[t.sender].sequence_number
    THEN "SEQUENCE_NUMBER_TOO_OLD"
    ELSE IF t.sequence_number > accts[t.sender].sequence_number
    THEN "SEQUENCE_NUMBER_TOO_NEW"
    ELSE OK

check_sequence_number(t, accts) ==
    IF t.sequence_number < accts[t.sender].sequence_number
    THEN "SEQUENCE_NUMBER_TOO_OLD"
    ELSE IF t.sequence_number > accts[t.sender].sequence_number
    THEN "SEQUENCE_NUMBER_TOO_NEW"
    ELSE OK

\* A prologue that verifies the signature before it looks up the sender.
check_sender_signature_first(t, accts) ==
    IF t.chain_id # TESTING THEN "BAD_CHAIN_ID"
    ELSE IF t.expiration_time < CurrentTime THEN "TRANSACTION_EXPIRED"
    ELSE IF ~VerifySignature(t) THEN "INVALID_SIGNATURE"
    ELSE IF ~accts[t.sender].exists THEN "SENDING_ACCOUNT_DOES_NOT_EXIST"
    ELSE IF AuthenticationKey(t.public_key) # accts[t.sender].authentication_key
    THEN "INVALID_AUTH_KEY"
    ELSE check_sequence_number(t, accts)

\* A prologue that compares the sequence number before it verifies the
\* signature.
check_sender_sequence_first(t, accts) ==
    IF t.chain_id # TESTING THEN "BAD_CHAIN_ID"
    ELSE IF t.expiration_time < CurrentTime THEN "TRANSACTION_EXPIRED"
    ELSE IF ~accts[t.sender].exists THEN "SENDING_ACCOUNT_DOES_NOT_EXIST"
    ELSE IF check_sequence_number(t, accts) # OK
    THEN check_sequence_number(t, accts)
    ELSE IF ~VerifySignature(t) THEN "INVALID_SIGNATURE"
    ELSE IF AuthenticationKey(t.public_key) # accts[t.sender].authentication_key
    THEN "INVALID_AUTH_KEY"
    ELSE OK

check_sender(t, accts) ==
    IF t.chain_id # TESTING THEN "BAD_CHAIN_ID"
    ELSE IF t.expiration_time < CurrentTime THEN "TRANSACTION_EXPIRED"
    ELSE IF ~accts[t.sender].exists THEN "SENDING_ACCOUNT_DOES_NOT_EXIST"
    ELSE IF ~VerifySignature(t) THEN "INVALID_SIGNATURE"
    ELSE IF AuthenticationKey(t.public_key) # accts[t.sender].authentication_key
    THEN "INVALID_AUTH_KEY"
    ELSE check_sequence_number(t, accts)

(***************************************************************************)
(* Publishing policy: what the active option lets a payload do.            *)
(***************************************************************************)
\* A policy gate that lets every payload through.
check_publishing_option_open(t, option) == OK

check_publishing_option(t, option) ==
    IF t.payload.kind = "Script"
    THEN IF is_allowed_script(option, t.payload.code)
         THEN OK ELSE "UNKNOWN_SCRIPT"
    ELSE IF is_open(option) \/ t.sender = LIBRA_ROOT
         THEN OK ELSE "INVALID_MODULE_PUBLISHER"

(***************************************************************************)
(* The checks both gates run, first failure wins.                          *)
(***************************************************************************)
\* A plausible slip: the balance is compared before the gas bounds.
verify_transaction_impl_balance_first(t, accts, option) ==
    IF check_sender(t, accts) # OK THEN check_sender(t, accts)
    ELSE IF check_balance(t, accts) # OK THEN check_balance(t, accts)
    ELSE IF check_gas(t) # OK THEN check_gas(t)
    ELSE check_publishing_option(t, option)

\* The checks in the order affordability, gas price, max gas units, size.
verify_transaction_impl_stated_order(t, accts, option) ==
    IF check_sender(t, accts) # OK THEN check_sender(t, accts)
    ELSE IF check_balance(t, accts) # OK THEN check_balance(t, accts)
    ELSE IF check_gas_price(t.gas_unit_price) # OK
    THEN check_gas_price(t.gas_unit_price)
    ELSE IF check_max_gas_units(t.max_gas_amount) # OK
    THEN check_max_gas_units(t.max_gas_amount)
    ELSE IF check_size(raw_txn_bytes_len(t)) # OK
    THEN check_size(raw_txn_bytes_len(t))
    ELSE check_publishing_option(t, option)

verify_transaction_impl(t, accts, option) ==
    IF check_sender(t, accts) # OK THEN check_sender(t, accts)
    ELSE IF check_gas(t) # OK THEN check_gas(t)
    ELSE IF check_balance(t, accts) # OK THEN check_balance(t, accts)
    ELSE check_publishing_option(t, option)

(***************************************************************************)
(* Checks only execution reaches: they need the deserialized payload.      *)
(***************************************************************************)
\* An execution that holds a module to its sender's address under every
\* publishing option.
execute_verified_payload_address_always(t, option) ==
    IF ~Deserializes(t.payload.code) THEN "CODE_DESERIALIZATION_ERROR"
    ELSE IF t.payload.kind = "Module"
    THEN IF t.payload.self_address # t.sender
         THEN "MODULE_ADDRESS_DOES_NOT_MATCH_SENDER"
         ELSE EXECUTED
    ELSE IF ~DependenciesVerify(t.payload.code) THEN "INVALID_RESOURCE_FIELD"
    ELSE IF t.payload.args # ScriptSignature(t.payload.code)
    THEN "TYPE_MISMATCH"
    ELSE EXECUTED

\* An execution that counts the arguments and does not look at their types.
execute_verified_payload_arity_only(t, option) ==
    IF ~Deserializes(t.payload.code) THEN "CODE_DESERIALIZATION_ERROR"
    ELSE IF t.payload.kind = "Module"
    THEN IF is_open(option) /\ t.payload.self_address # t.sender
         THEN "MODULE_ADDRESS_DOES_NOT_MATCH_SENDER"
         ELSE EXECUTED
    ELSE IF ~DependenciesVerify(t.payload.code) THEN "INVALID_RESOURCE_FIELD"
    ELSE IF Len(t.payload.args) # Len(ScriptSignature(t.payload.code))
    THEN "TYPE_MISMATCH"
    ELSE EXECUTED

execute_verified_payload(t, option) ==
    IF ~Deserializes(t.payload.code) THEN "CODE_DESERIALIZATION_ERROR"
    ELSE IF t.payload.kind = "Module"
    THEN IF is_open(option) /\ t.payload.self_address # t.sender
         THEN "MODULE_ADDRESS_DOES_NOT_MATCH_SENDER"
         ELSE EXECUTED
    ELSE IF ~DependenciesVerify(t.payload.code) THEN "INVALID_RESOURCE_FIELD"
    ELSE IF t.payload.args # ScriptSignature(t.payload.code)
    THEN "TYPE_MISMATCH"
    ELSE EXECUTED

(***************************************************************************)
(* The two gates.                                                          *)
(***************************************************************************)
\* An admission gate that reports a too-new sequence number.
validate_for_admission_strict(t, accts, option) ==
    IF verify_transaction_impl(t, accts, option) = OK
    THEN ACCEPTED
    ELSE verify_transaction_impl(t, accts, option)

\* An admission gate that goes on to the checks on the deserialized payload.
validate_for_admission_deep(t, accts, option) ==
    IF verify_transaction_impl(t, accts, option) = "SEQUENCE_NUMBER_TOO_NEW"
    THEN ACCEPTED
    ELSE IF verify_transaction_impl(t, accts, option) # OK
    THEN verify_transaction_impl(t, accts, option)
    ELSE IF execute_verified_payload(t, option) = EXECUTED
    THEN ACCEPTED
    ELSE execute_verified_payload(t, option)

\* An admission gate that accepts every transaction.
validate_for_admission_accept_all(t, accts, option) == ACCEPTED

\* FakeExecutor::verify_transaction(txn).status(): ACCEPTED stands for None.
\* A sequence number in the future is not reported at admission.
validate_for_admission(t, accts, option) ==
    IF verify_transaction_impl(t, accts, option)
          \in {OK, "SEQUENCE_NUMBER_TOO_NEW"}
    THEN ACCEPTED
    ELSE verify_transaction_impl(t, accts, option)

\* An execution gate that skips the checks shared with admission.
validate_for_execution_unchecked(t, accts, option) ==
    TransactionStatus_from(execute_verified_payload(t, option))

\* FakeExecutor::execute_transaction(txn).status()
validate_for_execution(t, accts, option) ==
    IF verify_transaction_impl(t, accts, option) # OK
    THEN TransactionStatus_from(verify_transaction_impl(t, accts, option))
    ELSE TransactionStatus_from(execute_verified_payload(t, option))

\* Gas units a kept transaction may be charged for.
GasUsedChoices(t) == {min_transaction_gas_units, t.max_gas_amount}

\* An epilogue that forgets to advance the sequence number.
charge_and_bump_no_bump(accts, t, gas_used) ==
    [accts EXCEPT ![t.sender].balance = @ - gas_used * t.gas_unit_price]

\* Epilogue of a kept transaction: the sender pays for the gas used and the
\* sequence number advances by one.
charge_and_bump(accts, t, gas_used) ==
    [accts EXCEPT ![t.sender].balance = @ - gas_used * t.gas_unit_price,
                  ![t.sender].sequence_number = @ + 1]

NoOutput == [status |-> [kind |-> "None", code |-> "NONE"], gas_used |-> 0]

\* No library function is being called, none has returned.
NoCall == [fn |-> "none"]
NoRet == [fn |-> "none"]

(***************************************************************************)
(* Actions.                                                                *)
(***************************************************************************)
Init ==
    /\ accounts = GenesisAccounts
    /\ publishing_option \in PublishingOptions
    /\ ledger = <<>>
    /\ txn \in Txns
    /\ pc = "submitted"
    /\ verify_result = "NONE"
    /\ admission_snapshot = GenesisAccounts
    /\ output = NoOutput
    /\ call = NoCall
    /\ ret = NoRet

\* An admission gate that consumes the sequence number it has validated.
VerifyTransaction_bumping ==
    /\ pc = "submitted"
    /\ verify_result' = validate_for_admission(txn, accounts, publishing_option)
    /\ admission_snapshot' = accounts
    /\ accounts' = IF verify_result' = ACCEPTED
                   THEN [accounts EXCEPT ![txn.sender].sequence_number = @ + 1]
                   ELSE accounts
    /\ pc' = "verified"
    /\ UNCHANGED <<publishing_option, ledger, txn, output, call, ret>>

\* executor.verify_transaction(txn): a read of the current state.
VerifyTransaction ==
    /\ pc = "submitted"
    /\ verify_result' = validate_for_admission(txn, accounts, publishing_option)
    /\ admission_snapshot' = accounts
    /\ pc' = "verified"
    /\ UNCHANGED <<accounts, publishing_option, ledger, txn, output, call, ret>>

\* executor.execute_transaction(txn), with its output applied to the ledger.
ExecuteTransaction ==
    /\ pc \in {"submitted", "verified"}
    /\ LET status == validate_for_execution(txn, accounts, publishing_option)
       IN  IF status.kind = "Discard"
           THEN /\ output' = [status |-> status, gas_used |-> 0]
                /\ UNCHANGED <<accounts, ledger>>
           ELSE \E gas_used \in GasUsedChoices(txn) :
                /\ output' = [status |-> status, gas_used |-> gas_used]
                /\ accounts' = charge_and_bump(accounts, txn, gas_used)
                /\ ledger' = Append(ledger, [txn |-> txn, status |-> status])
    /\ pc' = "executed"
    /\ UNCHANGED <<publishing_option, txn, verify_result,
                   admission_snapshot, call, ret>>

Next == VerifyTransaction \/ ExecuteTransaction

Spec == Init /\ [][Next]_vars

(***************************************************************************)
(* The executor over time.  One transaction (txn) is followed through      *)
(* admission and execution while the executor executes other transactions  *)
(* in between and afterwards, each applied to the ledger state.            *)
(***************************************************************************)
\* The accounts that exist at genesis.
LedgerSenders == {a \in Senders : GenesisAccounts[a].exists}

\* The key pair the account was created with.
KeyOf(a) ==
    CHOOSE k \in Keys :
        AuthenticationKey(k) = GenesisAccounts[a].authentication_key

\* account.create_signed_txn_with_args: a transaction signed by its sender,
\* for this chain, not expired.
SignedTxn(sender, sequence_number, payload, max_gas_amount, gas_unit_price) ==
    [sender |-> sender,
     sequence_number |-> sequence_number,
     payload |-> payload,
     max_gas_amount |-> max_gas_amount,
     gas_unit_price |-> gas_unit_price,
     gas_currency_code |-> LBR_NAME,
     expiration_time |-> CurrentTime,
     chain_id |-> TESTING,
     public_key |-> KeyOf(sender),
     signature |-> KeyOf(sender)]

\* The payment, well typed and with its arguments swapped, at sequence
\* numbers from the accounts' own upwards, within the gas bounds, at the
\* maximum price.
LedgerTxns ==
    {SignedTxn(a, n, ScriptPayload(P2P_BYTES, args), g, p) :
        a \in LedgerSenders, n \in 1..MaxSeq,
        args \in {GoodArgs, SwappedArgs},
        g \in {min_transaction_gas_units, maximum_number_of_gas_units},
        p \in {max_price_per_gas_unit}}

InitLedger ==
    /\ accounts = GenesisAccounts
    /\ publishing_option = "Locked"
    /\ ledger = <<>>
    /\ txn \in LedgerTxns
    /\ pc = "submitted"
    /\ verify_result = "NONE"
    /\ admission_snapshot = GenesisAccounts
    /\ output = NoOutput
    /\ call = NoCall
    /\ ret = NoRet

\* executor.execute_transaction(t) for any transaction, the one followed
\* included: before its admission, in between, or once more afterwards.
ExecuteOther ==
    \E t \in LedgerTxns :
        /\ LET status == validate_for_execution(t, accounts, publishing_option)
           IN  IF status.kind = "Discard"
               THEN UNCHANGED <<accounts, ledger>>
               ELSE \E gas_used \in GasUsedChoices(t) :
                    /\ accounts' = charge_and_bump(accounts, t, gas_used)
                    /\ ledger' = Append(ledger, [txn |-> t, status |-> status])
        /\ UNCHANGED <<publishing_option, txn, pc, verify_result,
                       admission_snapshot, output, call, ret>>

NextLedger == VerifyTransaction \/ ExecuteTransaction \/ ExecuteOther

SpecLedger == InitLedger /\ [][NextLedger]_vars

(***************************************************************************)
(* The gates over the whole range of the gas fields.  One payment, signed  *)
(* by its sender and at the sender's sequence number, with max_gas_amount  *)
(* and gas_unit_price anywhere in the u64 range, against a sender whose    *)
(* balance is nothing, the least fee or the largest fee within the bounds. *)
(***************************************************************************)
FeeBalances ==
    {0, min_transaction_gas_units * max_price_per_gas_unit,
     maximum_number_of_gas_units * max_price_per_gas_unit}

InitFee ==
    /\ \E balance \in FeeBalances :
          accounts = [GenesisAccounts EXCEPT !["alice"].balance = balance]
    /\ publishing_option = "Locked"
    /\ ledger = <<>>
    /\ \E max_gas_amount \in 0..U64_MAX, gas_unit_price \in 0..U64_MAX :
          txn = SignedTxn("alice", GenesisAccounts["alice"].sequence_number,
                          ScriptPayload(P2P_BYTES, GoodArgs),
                          max_gas_amount, gas_unit_price)
    /\ pc = "submitted"
    /\ verify_result = "NONE"
    /\ admission_snapshot = accounts
    /\ output = NoOutput
    /\ call = NoCall
    /\ ret = NoRet

SpecFee == InitFee /\ [][Next]_vars

(***************************************************************************)
(* The standard library's transaction scripts (transaction_scripts.rs).    *)
(***************************************************************************)
\* enum StdlibScript: its variants.
StdlibScript ==
    {"AddCurrencyToAccount", "AddRecoveryRotationCapability",
     "AddValidator", "Burn", "BurnTxnFees", "CancelBurn",
     "CreateChildVaspAccount", "CreateDesignatedDealer",
     "CreateParentVaspAccount", "CreateRecoveryAddress",
     "CreateTestingAccount", "CreateValidatorAccount",
     "CreateValidatorOperatorAccount", "FreezeAccount", "MintLbr",
     "ModifyPublishingOption", "PeerToPeerWithMetadata", "Preburn",
     "PublishAccountLimitDefinition", "PublishSharedEd2551PublicKey",
     "Reconfigure", "RemoveValidator", "RotateAuthenticationKey",
     "RotateAuthenticationKeyWithNonce",
     "RotateAuthenticationKeyWithRecoveryAddress",
     "RotateDualAttestationInfo", "RotateSharedEd2551PublicKey",
     "UpdateAccountLimitWindowInfo", "SetValidatorConfig",
     "SetValidatorOperator", "TestnetMint", "TieredMint", "UnfreezeAccount",
     "UnmintLbr", "UpdateAccountLimitDefinition", "UpdateExchangeRate",
     "UpdateLibraVersion", "UpdateMintingAbility",
     "UpdateDualAttestationLimit"}

\* StdlibScript::all()
all ==
    <<"AddCurrencyToAccount", "AddRecoveryRotationCapability",
      "AddValidator", "Burn", "BurnTxnFees", "CancelBurn",
      "CreateChildVaspAccount", "CreateDesignatedDealer",
      "CreateParentVaspAccount", "CreateRecoveryAddress",
      "CreateTestingAccount", "CreateValidatorAccount",
      "CreateValidatorOperatorAccount", "FreezeAccount", "MintLbr",
      "ModifyPublishingOption", "PeerToPeerWithMetadata", "Preburn",
      "PublishAccountLimitDefinition", "PublishSharedEd2551PublicKey",
      "Reconfigure", "RemoveValidator", "RotateAuthenticationKey",
      "RotateAuthenticationKeyWithNonce",
      "RotateAuthenticationKeyWithRecoveryAddress",
      "RotateDualAttestationInfo", "RotateSharedEd2551PublicKey",
      "UpdateAccountLimitWindowInfo", "SetValidatorConfig",
      "SetValidatorOperator", "TestnetMint", "TieredMint",
      "UnfreezeAccount", "UnmintLbr", "UpdateAccountLimitDefinition",
      "UpdateExchangeRate", "UpdateLibraVersion", "UpdateMintingAbility",
      "UpdateDualAttestationLimit">>

\* impl Display for StdlibScript, and StdlibScript::name()
name(script) ==
    CASE script = "AddValidator" -> "add_validator"
      [] script = "AddCurrencyToAccount" -> "add_currency_to_account"
      [] script = "AddRecoveryRotationCapability" ->
            "add_recovery_rotation_capability"
      [] script = "Burn" -> "burn"
      [] script = "BurnTxnFees" -> "burn_txn_fees"
      [] script = "CancelBurn" -> "cancel_burn"
      [] script = "CreateChildVaspAccount" -> "create_child_vasp_account"
      [] script = "CreateDesignatedDealer" -> "create_designated_dealer"
      [] script = "CreateParentVaspAccount" -> "create_parent_vasp_account"
      [] script = "CreateRecoveryAddress" -> "create_recovery_address"
      [] script = "CreateTestingAccount" -> "create_testing_account"
      [] script = "CreateValidatorAccount" -> "create_validator_account"
      [] script = "CreateValidatorOperatorAccount" ->
            "create_validator_operator_account"
      [] script = "FreezeAccount" -> "freeze_account"
      [] script = "TestnetMint" -> "testnet_mint"
      [] script = "MintLbr" -> "mint_lbr"
      [] script = "ModifyPublishingOption" -> "modify_publishing_option"
      [] script = "PeerToPeerWithMetadata" -> "peer_to_peer_with_metadata"
      [] script = "Preburn" -> "preburn"
      [] script = "PublishAccountLimitDefinition" ->
            "publish_account_limit_definition"
      [] script = "PublishSharedEd2551PublicKey" ->
            "publish_shared_ed25519_public_key"
      [] script = "Reconfigure" -> "reconfigure"
      [] script = "RemoveValidator" -> "remove_validator"
      [] script = "RotateAuthenticationKey" -> "rotate_authentication_key"
      [] script = "RotateAuthenticationKeyWithNonce" ->
            "rotate_authentication_key_with_nonce"
      [] script = "RotateAuthenticationKeyWithRecoveryAddress" ->
            "rotate_authentication_key_with_recovery_address"
      [] script = "RotateDualAttestationInfo" -> "rotate_dual_attestation_info"
      [] script = "RotateSharedEd2551PublicKey" ->
            "rotate_shared_ed25519_public_key"
      [] script = "UpdateAccountLimitWindowInfo" ->
            "update_account_limit_window_info"
      [] script = "SetValidatorConfig" -> "set_validator_config"
      [] script = "SetValidatorOperator" -> "set_validator_operator"
      [] script = "TieredMint" -> "tiered_mint"
      [] script = "UpdateDualAttestationLimit" ->
            "update_dual_attestation_limit"
      [] script = "UnfreezeAccount" -> "unfreeze_account"
      [] script = "UnmintLbr" -> "unmint_lbr"
      [] script = "UpdateAccountLimitDefinition" ->
            "update_account_limit_definition"
      [] script = "UpdateLibraVersion" -> "update_libra_version"
      [] script = "UpdateExchangeRate" -> "update_exchange_rate"
      [] script = "UpdateMintingAbility" -> "update_minting_ability"

\* The names of the ABI files of TXN_SCRIPTS_ABI_DIR.
AbiFiles == {name(script) : script \in StdlibScript}

\* StdlibScript::compiled_bytes(): the code of the ABI file named after the
\* script, in the directory dir.
compiled_bytes_in(dir, script) == dir[name(script)]

\* StdlibScript::hash(): CompiledBytes::hash of the compiled bytes.
hash(dir, script) == hash_bytes(compiled_bytes_in(dir, script))

\* A whitelist that leaves out the first script of all().
whitelist_of_but_first(dir) ==
    [i \in 1..(Len(all) - 1) |-> hash(dir, all[i + 1])]

\* StdlibScript::whitelist(): all().iter().map(hash).collect()
whitelist_of(dir) == [i \in 1..Len(all) |-> hash(dir, all[i])]

Err == "Err"

\* A lookup that returns the last script of all() with the hash.
try_from_last(dir, code_bytes) ==
    LET found == {i \in 1..Len(all) : hash(dir, all[i]) = hash_bytes(code_bytes)}
    IN  IF found = {} THEN Err
        ELSE all[CHOOSE i \in found : \A j \in found : j <= i]

\* Iterator::find over all(), from position i on.
RECURSIVE find(_, _, _)
find(dir, h, i) ==
    IF i > Len(all) THEN Err
    ELSE IF hash(dir, all[i]) = h THEN all[i]
    ELSE find(dir, h, i + 1)

\* impl TryFrom<&[u8]> for StdlibScript
try_from(dir, code_bytes) == find(dir, hash_bytes(code_bytes), 1)

\* StdlibScript::is
is(dir, code_bytes) == try_from(dir, code_bytes) # Err

\* The scripts whose ABI files vary: the first and the last of all(), and
\* the payment.
VaryingScripts ==
    {all[1], "PeerToPeerWithMetadata", all[Len(all)]}

\* The directories: every file holds its script's own code, except that a
\* file of a varying script may hold the code of another varying script.
AbiDirs ==
    {[f \in AbiFiles |->
        IF f \in DOMAIN vary THEN vary[f] ELSE compiled_bytes(f)] :
     vary \in [{name(s) : s \in VaryingScripts} ->
                  {compiled_bytes(name(s)) : s \in VaryingScripts}]}

\* Byte vectors looked up: code of scripts, and bytes that are no script's.
CodeBytes ==
    {compiled_bytes(name(s)) : s \in VaryingScripts}
        \cup {compiled_bytes("burn"), CUSTOM_BYTES, EMPTY_BYTES}

InitScripts ==
    /\ accounts = GenesisAccounts
    /\ publishing_option = "Locked"
    /\ ledger = <<>>
    /\ txn = SignedTxn("alice", 1, ScriptPayload(P2P_BYTES, GoodArgs),
                       min_transaction_gas_units, 1)
    /\ pc = "submitted"
    /\ verify_result = "NONE"
    /\ admission_snapshot = GenesisAccounts
    /\ output = NoOutput
    /\ call \in [fn : {"StdlibScript"}, dir : AbiDirs, code_bytes : CodeBytes]
    /\ ret = NoRet

Ledger == <<accounts, publishing_option, ledger, txn, pc, verify_result,
            admission_snapshot, output>>

\* StdlibScript::whitelist()
Whitelist ==
    /\ call.fn = "StdlibScript"
    /\ ret = NoRet
    /\ ret' = [fn |-> "whitelist", value |-> whitelist_of(call.dir)]
    /\ UNCHANGED <<Ledger, call>>

\* StdlibScript::try_from(code_bytes)
TryFrom ==
    /\ call.fn = "StdlibScript"
    /\ ret = NoRet
    /\ ret' = [fn |-> "try_from",
               value |-> try_from(call.dir, call.code_bytes)]
    /\ UNCHANGED <<Ledger, call>>

\* StdlibScript::is(code_bytes)
Is ==
    /\ call.fn = "StdlibScript"
    /\ ret = NoRet
    /\ ret' = [fn |-> "is", value |-> is(call.dir, call.code_bytes)]
    /\ UNCHANGED <<Ledger, call>>

NextScripts == Whitelist \/ TryFrom \/ Is

SpecScripts == InitScripts /\ [][NextScripts]_vars

(***************************************************************************)
(* Chain ids (chain_id.rs).  A string is a sequence of characters.         *)
(***************************************************************************)
\* enum NamedChain, #[repr(u8)]: the variants in the order of their ids.
NamedChain == <<"MAINNET", "PREMAINNET", "TESTNET", "DEVNET", "TESTING">>

\* NamedChain::id: the discriminant of the variant.
NamedChain_id(chain) ==
    (CHOOSE i \in 1..Len(NamedChain) : NamedChain[i] = chain) - 1

\* The string literals of the match in str_to_chain_id.
Literal(chain) ==
    CASE chain = "MAINNET" -> <<"M", "A", "I", "N", "N", "E", "T">>
      [] chain = "PREMAINNET" ->
            <<"P", "R", "E", "M", "A", "I", "N", "N", "E", "T">>
      [] chain = "TESTNET" -> <<"T", "E", "S", "T", "N", "E", "T">>
      [] chain = "DEVNET" -> <<"D", "E", "V", "N", "E", "T">>
      [] chain = "TESTING" -> <<"T", "E", "S", "T", "I", "N", "G">>

\* Largest value of a u8.
U8_MAX == 255

Failed == [ok |-> FALSE, id |-> 0]

\* ChainId::new inside Ok(..)
ChainId_new(id) == [ok |-> TRUE, id |-> id]

Digits == <<"0", "1", "2", "3", "4", "5", "6", "7", "8", "9">>

DigitValue(c) == (CHOOSE i \in 1..Len(Digits) : Digits[i] = c) - 1

IsDigit(c) == \E i \in 1..Len(Digits) : Digits[i] = c

\* The digit loop of a parse that wraps around at the width of a u8.
RECURSIVE parse_digits_wrapping(_, _)
parse_digits_wrapping(digits, result) ==
    IF digits = <<>> THEN ChainId_new(result)
    ELSE IF ~IsDigit(Head(digits)) THEN Failed
    ELSE parse_digits_wrapping(Tail(digits),
            (result * 10 + DigitValue(Head(digits))) % (U8_MAX + 1))

\* The digit loop of u8::from_str: checked_mul(10), then checked_add(digit).
RECURSIVE parse_digits(_, _)
parse_digits(digits, result) ==
    IF digits = <<>> THEN ChainId_new(result)
    ELSE IF ~IsDigit(Head(digits)) THEN Failed
    ELSE IF result * 10 > U8_MAX THEN Failed
    ELSE IF result * 10 + DigitValue(Head(digits)) > U8_MAX THEN Failed
    ELSE parse_digits(Tail(digits), result * 10 + DigitValue(Head(digits)))

\* s.parse::<u8>(): an optional plus sign, then at least one digit.
parse_u8(s) ==
    IF s = <<>> THEN Failed
    ELSE IF Head(s) \in {"+", "-"} /\ Tail(s) = <<>> THEN Failed
    ELSE IF Head(s) = "+" THEN parse_digits(Tail(s), 0)
    ELSE parse_digits(s, 0)

\* NamedChain::str_to_chain_id
str_to_chain_id(s) ==
    IF \E i \in 1..Len(NamedChain) : s = Literal(NamedChain[i])
    THEN ChainId_new(NamedChain_id(
            CHOOSE chain \in {NamedChain[i] : i \in 1..Len(NamedChain)} :
                s = Literal(chain)))
    ELSE Failed

\* impl FromStr for ChainId, on a non-empty string
from_str(s) ==
    IF str_to_chain_id(s).ok THEN str_to_chain_id(s) ELSE parse_u8(s)

\* ChainId::test
ChainId_test == ChainId_new(NamedChain_id("TESTING"))

\* impl Default for ChainId
ChainId_default == ChainId_test

\* Longest string of the alphabet handed to from_str.
MaxStrLen == 3

Alphabet == {"0", "1", "2", "5", "6", "9", "+", "-", "x"}

\* The strings handed to from_str: the reserved names, names that are not
\* reserved, and every non-empty string over the alphabet up to MaxStrLen.
ChainStrings ==
    {Literal(NamedChain[i]) : i \in 1..Len(NamedChain)}
        \cup {<<"M", "A", "I", "N">>, <<"t", "e", "s", "t", "i", "n", "g">>,
              <<"T", "E", "S", "T", "I", "N", "G", "0">>}
        \cup UNION {[1..n -> Alphabet] : n \in 1..MaxStrLen}

InitChainId ==
    /\ accounts = GenesisAccounts
    /\ publishing_option = "Locked"
    /\ ledger = <<>>
    /\ txn = SignedTxn("alice", 1, ScriptPayload(P2P_BYTES, GoodArgs),
                       min_transaction_gas_units, 1)
    /\ pc = "submitted"
    /\ verify_result = "NONE"
    /\ admission_snapshot = GenesisAccounts
    /\ output = NoOutput
    /\ call \in [fn : {"ChainId"}, s : ChainStrings]
    /\ ret = NoRet

\* ChainId::from_str(s)
FromStr ==
    /\ call.fn = "ChainId"
    /\ ret = NoRet
    /\ ret' = [fn |-> "from_str", value |-> from_str(call.s)]
    /\ UNCHANGED <<Ledger, call>>

\* ChainId::default()
Default ==
    /\ call.fn = "ChainId"
    /\ ret = NoRet
    /\ ret' = [fn |-> "default", value |-> ChainId_default]
    /\ UNCHANGED <<Ledger, call>>

NextChainId == FromStr \/ Default

SpecChainId == InitChainId /\ [][NextChainId]_vars

(***************************************************************************)
(* The checks taken one at a time, for the properties about their order.   *)
(* Each is stated on the transaction and the state alone, without the      *)
(* pipeline.                                                               *)
(***************************************************************************)
Sender(accts) == accts[txn.sender]

Violates(check, accts, option) ==
    CASE check = "chain_id" -> txn.chain_id # TESTING
      [] check = "expiration" -> txn.expiration_time < CurrentTime
      [] check = "sender_exists" -> ~Sender(accts).exists
      [] check = "signature" -> txn.signature # txn.public_key
      [] check = "auth_key" ->
            Sender(accts).authentication_key # <<"auth", txn.public_key>>
      [] check = "sequence_number" ->
            txn.sequence_number # Sender(accts).sequence_number
      [] check = "balance" ->
            Sender(accts).balance < txn.max_gas_amount * txn.gas_unit_price
      [] check = "gas_price" ->
            \/ txn.gas_unit_price > max_price_per_gas_unit
            \/ txn.gas_unit_price < min_price_per_gas_unit
      [] check = "max_gas_units" ->
            \/ txn.max_gas_amount < min_transaction_gas_units
            \/ txn.max_gas_amount > maximum_number_of_gas_units
      [] check = "size" ->
            raw_txn_bytes_len(txn) > MAX_TRANSACTION_SIZE_IN_BYTES
      [] check = "publishing_option" ->
            \/ /\ txn.payload.kind = "Script"
               /\ option = "Locked"
               /\ txn.payload.code # P2P_BYTES
            \/ /\ txn.payload.kind = "Module"
               /\ option # "Open"
               /\ txn.sender # LIBRA_ROOT
      [] check = "deserialization" -> txn.payload.code = EMPTY_BYTES
      [] check = "module_address" ->
            /\ txn.payload.kind = "Module"
            /\ option = "Open"
            /\ txn.payload.self_address # txn.sender
      [] check = "dependencies" -> txn.payload.code = BAD_DEP_BYTES
      [] check = "arg_typing" ->
            /\ txn.payload.kind = "Script"
            /\ txn.payload.code # EMPTY_BYTES
            /\ txn.payload.args # ScriptSignature(txn.payload.code)
      [] OTHER -> FALSE

\* The status code a violated check reports.
CodeOf(check, accts) ==
    CASE check = "chain_id" -> "BAD_CHAIN_ID"
      [] check = "expiration" -> "TRANSACTION_EXPIRED"
      [] check = "sender_exists" -> "SENDING_ACCOUNT_DOES_NOT_EXIST"
      [] check = "signature" -> "INVALID_SIGNATURE"
      [] check = "auth_key" -> "INVALID_AUTH_KEY"
      [] check = "sequence_number" ->
            IF txn.sequence_number < Sender(accts).sequence_number
            THEN "SEQUENCE_NUMBER_TOO_OLD" ELSE "SEQUENCE_NUMBER_TOO_NEW"
      [] check = "balance" -> "INSUFFICIENT_BALANCE_FOR_TRANSACTION_FEE"
      [] check = "gas_price" ->
            IF txn.gas_unit_price > max_price_per_gas_unit
            THEN "GAS_UNIT_PRICE_ABOVE_MAX_BOUND"
            ELSE "GAS_UNIT_PRICE_BELOW_MIN_BOUND"
      [] check = "max_gas_units" ->
            IF txn.max_gas_amount < min_transaction_gas_units
            THEN "MAX_GAS_UNITS_BELOW_MIN_TRANSACTION_GAS_UNITS"
            ELSE "MAX_GAS_UNITS_EXCEEDS_MAX_GAS_UNITS_BOUND"
      [] check = "size" -> "EXCEEDED_MAX_TRANSACTION_SIZE"
      [] check = "publishing_option" ->
            IF txn.payload.kind = "Script"
            THEN "UNKNOWN_SCRIPT" ELSE "INVALID_MODULE_PUBLISHER"
      [] check = "deserialization" -> "CODE_DESERIALIZATION_ERROR"
      [] check = "module_address" -> "MODULE_ADDRESS_DOES_NOT_MATCH_SENDER"
      [] check = "dependencies" -> "INVALID_RESOURCE_FIELD"
      [] OTHER -> "TYPE_MISMATCH"

\* Checks 1-6 of the specification.
AccountChecks ==
    <<"chain_id", "expiration", "sender_exists", "signature", "auth_key",
      "sequence_number">>

\* Checks 11-12: policy gating, then what needs the deserialized payload.
PayloadChecks ==
    <<"publishing_option", "deserialization", "module_address",
      "dependencies", "arg_typing">>

\* The order the specification states: affordability, price, units, size.
StatedOrder ==
    AccountChecks \o <<"balance", "gas_price", "max_gas_units", "size">>
        \o PayloadChecks

\* The order the tests establish: size, units, price, affordability.
TestedOrder ==
    AccountChecks \o <<"size", "max_gas_units", "gas_price", "balance">>
        \o PayloadChecks

ViolatedAt(order, accts, option) ==
    {i \in 1..Len(order) : Violates(order[i], accts, option)}

\* The code of the earliest violated check of `order`, EXECUTED if none is.
EarliestCode(order, accts, option) ==
    IF ViolatedAt(order, accts, option) = {}
    THEN EXECUTED
    ELSE LET first == CHOOSE i \in ViolatedAt(order, accts, option) :
                        \A j \in ViolatedAt(order, accts, option) : i <= j
         IN  CodeOf(order[first], accts)

\* The transaction passes checks 1-10 (everything before payload gating).
PassesChecks1to10(accts, option) ==
    \A i \in 1..10 : ~Violates(TestedOrder[i], accts, option)

\* The state the gates read.  Admission changes nothing and a kept
\* execution is the only step that changes the accounts, so before the
\* execution the accounts are the genesis accounts.
Executed == pc = "executed"
Verified == verify_result # "NONE"

C3_ExecutionSideEffects ==
    [][(pc # "executed" /\ pc' = "executed") =>
        /\ output'.status.kind \in {"Discard", "Keep"}
        /\ output'.status.kind = "Discard" =>
              /\ accounts' = accounts
              /\ ledger' = ledger
        /\ output'.status.kind = "Keep" =>
              /\ accounts'[txn.sender].sequence_number =
                    accounts[txn.sender].sequence_number + 1
              /\ ledger' = Append(ledger,
                                  [txn |-> txn, status |-> output'.status])
              /\ output'.gas_used \in 1..txn.max_gas_amount
              /\ accounts'[txn.sender].balance =
                    accounts[txn.sender].balance
                        - output'.gas_used * txn.gas_unit_price
              /\ \A a \in Senders \ {txn.sender} : accounts'[a] = accounts[a]
    ]_vars

\* A kept failure has been charged: sequence number advanced, gas debited.
C3_Witness ==
    /\ Executed
    /\ output.status = [kind |-> "Keep", code |-> "TYPE_MISMATCH"]
    /\ accounts[txn.sender].sequence_number =
          GenesisAccounts[txn.sender].sequence_number + 1
    /\ accounts[txn.sender].balance < GenesisAccounts[txn.sender].balance
    /\ Len(ledger) = 1

(***************************************************************************)
(* C4. A transaction from an existing account with a valid signature and   *)
(* authentication key (right chain, not expired) whose sequence number is  *)
(* below the account's is rejected SEQUENCE_NUMBER_TOO_OLD by admission    *)
(* and discarded with that code by execution.                              *)
(***************************************************************************)
WellFormedTooOld ==
    /\ \A i \in 1..5 : ~Violates(AccountChecks[i], GenesisAccounts,
                                 publishing_option)
    /\ txn.sequence_number < GenesisAccounts[txn.sender].sequence_number

C4_SequenceNumberTooOld ==
    WellFormedTooOld =>
        /\ Verified => verify_result = "SEQUENCE_NUMBER_TOO_OLD"
        /\ Executed => output.status =
              [kind |-> "Discard", code |-> "SEQUENCE_NUMBER_TOO_OLD"]

C4_Witness ==
    /\ WellFormedTooOld
    /\ Executed
    /\ Verified
    /\ output.status.code = "SEQUENCE_NUMBER_TOO_OLD"

(***************************************************************************)
(* C5. A transaction that violates nothing but carries a sequence number   *)
(* above the account's is accepted by admission and discarded              *)
(* SEQUENCE_NUMBER_TOO_NEW by execution, the accounts unchanged.           *)
(***************************************************************************)
OtherwiseValidTooNew ==
    /\ txn.sequence_number > GenesisAccounts[txn.sender].sequence_number
    /\ \A i \in 1..Len(TestedOrder) :
          TestedOrder[i] # "sequence_number"
              => ~Violates(TestedOrder[i], GenesisAccounts, publishing_option)

C5_TooNewAsymmetry ==
    OtherwiseValidTooNew =>
        /\ Verified => verify_result = ACCEPTED
        /\ Executed =>
              /\ output.status =
                    [kind |-> "Discard", code |-> "SEQUENCE_NUMBER_TOO_NEW"]
              /\ accounts = GenesisAccounts
              /\ ledger = <<>>

C5_Witness ==
    /\ OtherwiseValidTooNew
    /\ Executed
    /\ verify_result = ACCEPTED
    /\ output.status.code = "SEQUENCE_NUMBER_TOO_NEW"

(***************************************************************************)
(* C6. verify_transaction mutates nothing: accounts (sequence numbers,     *)
(* balances, authentication keys), the ledger record and the publishing    *)
(* option are the same after the call as before it, whatever it returns.   *)
(***************************************************************************)
C6_AdmissionMutatesNothing ==
    [][(pc = "submitted" /\ pc' = "verified") =>
        /\ accounts' = accounts
        /\ ledger' = ledger
        /\ publishing_option' = publishing_option
        /\ output' = output
    ]_vars

\* Admission has accepted a transaction and the state is the genesis state.
C6_Witness ==
    /\ pc = "verified"
    /\ verify_result = ACCEPTED
    /\ accounts = GenesisAccounts
    /\ ledger = <<>>

(***************************************************************************)
(* C8. Classification as claimed: at execution the prologue codes are      *)
(* always Discard, and TYPE_MISMATCH, CODE_DESERIALIZATION_ERROR,          *)
(* UNKNOWN_SCRIPT, INVALID_MODULE_PUBLISHER,                               *)
(* MODULE_ADDRESS_DOES_NOT_MATCH_SENDER and dependency verification        *)
(* failures are always Keep.                                               *)
(***************************************************************************)
ClaimedDiscardCodes ==
    {"INVALID_SIGNATURE", "SENDING_ACCOUNT_DOES_NOT_EXIST", "INVALID_AUTH_KEY",
     "SEQUENCE_NUMBER_TOO_OLD", "INSUFFICIENT_BALANCE_FOR_TRANSACTION_FEE",
     "GAS_UNIT_PRICE_BELOW_MIN_BOUND", "GAS_UNIT_PRICE_ABOVE_MAX_BOUND",
     "MAX_GAS_UNITS_BELOW_MIN_TRANSACTION_GAS_UNITS",
     "MAX_GAS_UNITS_EXCEEDS_MAX_GAS_UNITS_BOUND",
     "EXCEEDED_MAX_TRANSACTION_SIZE"}

ClaimedKeepCodes ==
    {"TYPE_MISMATCH", "CODE_DESERIALIZATION_ERROR", "UNKNOWN_SCRIPT",
     "INVALID_MODULE_PUBLISHER", "MODULE_ADDRESS_DOES_NOT_MATCH_SENDER",
     "INVALID_RESOURCE_FIELD"}

C8_ClaimedClassification ==
    Executed =>
        /\ output.status.code \in ClaimedDiscardCodes
              => output.status.kind = "Discard"
        /\ output.status.code \in ClaimedKeepCodes
              => output.status.kind = "Keep"

(***************************************************************************)
(* C9. Payload checks are execution-only, as stated: admission never       *)
(* returns a status of checks 11-12, and a transaction passing checks 1-10 *)
(* is accepted at admission.                                               *)
(***************************************************************************)
C9_AdmissionStopsAtCheck10 ==
    Verified =>
        /\ verify_result \notin
              {"INVALID_MODULE_PUBLISHER", "UNKNOWN_SCRIPT",
               "CODE_DESERIALIZATION_ERROR",
               "MODULE_ADDRESS_DOES_NOT_MATCH_SENDER", "TYPE_MISMATCH"}
        /\ PassesChecks1to10(GenesisAccounts, publishing_option)
              => verify_result = ACCEPTED

\* C9 as amended: admission never returns a status that needs the
\* deserialized payload (CODE_DESERIALIZATION_ERROR,
\* MODULE_ADDRESS_DOES_NOT_MATCH_SENDER, TYPE_MISMATCH, a dependency's
\* verification failure); a transaction passing checks 1-10 is accepted at
\* admission unless the publishing policy forbids its payload, and then
\* admission rejects it UNKNOWN_SCRIPT or INVALID_MODULE_PUBLISHER.
C9_AdmissionStopsAtPolicyGating ==
    Verified =>
        /\ verify_result \notin
              {"CODE_DESERIALIZATION_ERROR",
               "MODULE_ADDRESS_DOES_NOT_MATCH_SENDER", "TYPE_MISMATCH",
               "INVALID_RESOURCE_FIELD"}
        /\ PassesChecks1to10(GenesisAccounts, publishing_option) =>
              verify_result =
                 IF Violates("publishing_option", GenesisAccounts,
                             publishing_option)
                 THEN CodeOf("publishing_option", GenesisAccounts)
                 ELSE ACCEPTED

\* Admission accepted a transaction that execution keeps as a failure of a
\* payload check.
C9_Witness ==
    /\ Executed
    /\ verify_result = ACCEPTED
    /\ PassesChecks1to10(GenesisAccounts, publishing_option)
    /\ output.status = [kind |-> "Keep", code |-> "CODE_DESERIALIZATION_ERROR"]

(***************************************************************************)
(* C10. Payload-gating parity: passing checks 1-10, a script whose hash is *)
(* not whitelisted under Locked is rejected UNKNOWN_SCRIPT, and a module   *)
(* publish by a sender other than the root under CustomScripts is rejected *)
(* INVALID_MODULE_PUBLISHER, by admission and by execution alike.          *)
(***************************************************************************)
UnlistedScriptUnderLocked ==
    /\ PassesChecks1to10(GenesisAccounts, publishing_option)
    /\ publishing_option = "Locked"
    /\ txn.payload.kind = "Script"
    /\ \A s \in StdlibScripts :
          hash_bytes(txn.payload.code) # hash_bytes(compiled_bytes(s))

NonRootModuleUnderCustomScripts ==
    /\ PassesChecks1to10(GenesisAccounts, publishing_option)
    /\ publishing_option = "CustomScripts"
    /\ txn.payload.kind = "Module"
    /\ txn.sender # LIBRA_ROOT

C10_PayloadGatingParity ==
    /\ UnlistedScriptUnderLocked =>
          /\ Verified => verify_result = "UNKNOWN_SCRIPT"
          /\ Executed => output.status.code = "UNKNOWN_SCRIPT"
    /\ NonRootModuleUnderCustomScripts =>
          /\ Verified => verify_result = "INVALID_MODULE_PUBLISHER"
          /\ Executed => output.status.code = "INVALID_MODULE_PUBLISHER"

\* The empty script of test_whitelist, verified and then executed.
C10_Witness ==
    /\ UnlistedScriptUnderLocked
    /\ txn.payload.code = EMPTY_BYTES
    /\ Executed
    /\ verify_result = "UNKNOWN_SCRIPT"
    /\ output.status.code = "UNKNOWN_SCRIPT"


(***************************************************************************)
(* C11. Whitelist gating depends only on the policy and the content hash:  *)
(* for a Script payload passing checks 1-10, under Locked execution        *)
(* rejects UNKNOWN_SCRIPT exactly when the hash of the script's bytecode   *)
(* is the hash of no whitelisted script, and under Open or CustomScripts   *)
(* the same bytecode is never rejected UNKNOWN_SCRIPT.                     *)
(***************************************************************************)
ScriptPassingChecks1to10 ==
    /\ PassesChecks1to10(GenesisAccounts, publishing_option)
    /\ txn.payload.kind = "Script"

HashNotWhitelisted ==
    \A s \in StdlibScripts :
        hash_bytes(txn.payload.code) # hash_bytes(compiled_bytes(s))

C11_WhitelistGating ==
    (Executed /\ ScriptPassingChecks1to10) =>
        IF publishing_option = "Locked"
        THEN output.status.code = "UNKNOWN_SCRIPT" <=> HashNotWhitelisted
        ELSE output.status.code # "UNKNOWN_SCRIPT"

\* A script outside the whitelist has run to completion under CustomScripts.
C11_Witness ==
    /\ Executed
    /\ ScriptPassingChecks1to10
    /\ publishing_option = "CustomScripts"
    /\ HashNotWhitelisted
    /\ txn.payload.code = CUSTOM_BYTES
    /\ output.status.code = EXECUTED


(***************************************************************************)
(* C12. Module-publisher gating under Locked and CustomScripts: a Module   *)
(* payload passing checks 1-10 is rejected INVALID_MODULE_PUBLISHER, by    *)
(* admission and by execution, exactly when its sender is not the root     *)
(* account, whatever address the module declares; sent by the root account *)
(* it is accepted at admission and executes as Keep(EXECUTED), also when   *)
(* the declared address is not the sender's.                               *)
(***************************************************************************)
ModulePassingChecks1to10 ==
    /\ PassesChecks1to10(GenesisAccounts, publishing_option)
    /\ txn.payload.kind = "Module"

C12_ModulePublisherGating ==
    (ModulePassingChecks1to10 /\ publishing_option # "Open") =>
        /\ Verified =>
              /\ verify_result = "INVALID_MODULE_PUBLISHER"
                    <=> txn.sender # LIBRA_ROOT
              /\ txn.sender = LIBRA_ROOT => verify_result = ACCEPTED
        /\ Executed =>
              /\ output.status.code = "INVALID_MODULE_PUBLISHER"
                    <=> txn.sender # LIBRA_ROOT
              /\ txn.sender = LIBRA_ROOT =>
                    output.status = [kind |-> "Keep", code |-> EXECUTED]

\* test_no_publishing_libra_root_sender: the root account has published a
\* module declared at the core code address.
C12_Witness ==
    /\ ModulePassingChecks1to10
    /\ publishing_option = "CustomScripts"
    /\ txn.sender = LIBRA_ROOT
    /\ txn.payload.self_address = CORE_CODE_ADDRESS
    /\ verify_result = ACCEPTED
    /\ Executed
    /\ output.status = [kind |-> "Keep", code |-> EXECUTED]


(***************************************************************************)
(* C13. Open publishing address rule: under Open, a Module payload from an *)
(* existing sender passing checks 1-10 is accepted at admission; execution *)
(* keeps it as EXECUTED when the module's declared address is the sender's *)
(* and as MODULE_ADDRESS_DOES_NOT_MATCH_SENDER when it is not; it is never *)
(* discarded, so the sender's sequence number advances by one either way.  *)
(***************************************************************************)
C13_OpenPublishingAddressRule ==
    (ModulePassingChecks1to10 /\ publishing_option = "Open") =>
        /\ Verified => verify_result = ACCEPTED
        /\ Executed =>
              /\ output.status =
                    [kind |-> "Keep",
                     code |-> IF txn.payload.self_address = txn.sender
                              THEN EXECUTED
                              ELSE "MODULE_ADDRESS_DOES_NOT_MATCH_SENDER"]
              /\ accounts[txn.sender].sequence_number =
                    GenesisAccounts[txn.sender].sequence_number + 1

\* test_open_publishing_invalid_address: alice's module declared at another
\* account's address is kept as a failure and her sequence number advanced.
C13_Witness ==
    /\ ModulePassingChecks1to10
    /\ publishing_option = "Open"
    /\ txn.sender = "alice"
    /\ txn.payload.self_address = LIBRA_ROOT
    /\ verify_result = ACCEPTED
    /\ Executed
    /\ output.status.code = "MODULE_ADDRESS_DOES_NOT_MATCH_SENDER"
    /\ accounts["alice"].sequence_number = 2


(***************************************************************************)
(* C14. Argument arity/type check: for a Script payload passing checks     *)
(* 1-11 (it is let through by the policy and deserializes), when the       *)
(* arguments differ from the script's declared parameters in number or in  *)
(* the type at some position, execution returns Keep(TYPE_MISMATCH) and    *)
(* admission accepts the same transaction.                                 *)
(***************************************************************************)
ScriptPassingChecks1to11 ==
    /\ ScriptPassingChecks1to10
    /\ ~Violates("publishing_option", GenesisAccounts, publishing_option)
    /\ ~Violates("deserialization", GenesisAccounts, publishing_option)

ArgumentsMismatch ==
    LET declared == ScriptSignature(txn.payload.code)
    IN  \/ Len(txn.payload.args) # Len(declared)
        \/ \E i \in 1..Len(declared) : txn.payload.args[i] # declared[i]

C14_ArgumentTypeMismatch ==
    (ScriptPassingChecks1to11 /\ ArgumentsMismatch) =>
        /\ Verified => verify_result = ACCEPTED
        /\ Executed =>
              output.status = [kind |-> "Keep", code |-> "TYPE_MISMATCH"]

\* The payment with its two arguments swapped, accepted and then kept as a
\* type mismatch.
C14_Witness ==
    /\ ScriptPassingChecks1to11
    /\ txn.payload.code = P2P_BYTES
    /\ txn.payload.args = SwappedArgs
    /\ verify_result = ACCEPTED
    /\ Executed
    /\ output.status = [kind |-> "Keep", code |-> "TYPE_MISMATCH"]


(***************************************************************************)
(* C15. Position of the gas-price check, as stated: a transaction passing  *)
(* checks 1-6 whose gas price is above the maximum is rejected             *)
(* INSUFFICIENT_BALANCE_FOR_TRANSACTION_FEE when it is also unaffordable   *)
(* (affordability comes first) and GAS_UNIT_PRICE_ABOVE_MAX_BOUND          *)
(* otherwise, also when it violates a bound on max gas units (the price    *)
(* comes before the units).                                                *)
(***************************************************************************)
PassesAccountChecks ==
    \A i \in 1..Len(AccountChecks) :
        ~Violates(AccountChecks[i], GenesisAccounts, publishing_option)

PriceAboveMax == txn.gas_unit_price > max_price_per_gas_unit

\* Both call sites reject with `code`.
BothReject(code) ==
    /\ Verified => verify_result = code
    /\ Executed => output.status = [kind |-> "Discard", code |-> code]

C15_StatedPricePosition ==
    (PassesAccountChecks /\ PriceAboveMax) =>
        IF Violates("balance", GenesisAccounts, publishing_option)
        THEN BothReject("INSUFFICIENT_BALANCE_FOR_TRANSACTION_FEE")
        ELSE BothReject("GAS_UNIT_PRICE_ABOVE_MAX_BOUND")

\* C15 as amended: a transaction passing checks 1-6 whose gas price is
\* above the maximum is rejected GAS_UNIT_PRICE_ABOVE_MAX_BOUND whether or
\* not the sender can afford it (the price comes before affordability),
\* unless it is oversized or violates a bound on max gas units, and then it
\* is rejected with the code of that check (size and units come before the
\* price).
C15_TestedPricePosition ==
    (PassesAccountChecks /\ PriceAboveMax) =>
        IF Violates("size", GenesisAccounts, publishing_option)
        THEN BothReject("EXCEEDED_MAX_TRANSACTION_SIZE")
        ELSE IF Violates("max_gas_units", GenesisAccounts, publishing_option)
        THEN BothReject(CodeOf("max_gas_units", GenesisAccounts))
        ELSE BothReject("GAS_UNIT_PRICE_ABOVE_MAX_BOUND")

\* verify_txn.rs:217-230: a price above the maximum on a transaction the
\* sender cannot afford, rejected for the price by both call sites.
C15_Witness ==
    /\ PassesAccountChecks
    /\ PriceAboveMax
    /\ Violates("balance", GenesisAccounts, publishing_option)
    /\ ~Violates("size", GenesisAccounts, publishing_option)
    /\ ~Violates("max_gas_units", GenesisAccounts, publishing_option)
    /\ Executed
    /\ verify_result = "GAS_UNIT_PRICE_ABOVE_MAX_BOUND"
    /\ output.status =
          [kind |-> "Discard", code |-> "GAS_UNIT_PRICE_ABOVE_MAX_BOUND"]


(***************************************************************************)
(* C16. Gas bounds take precedence over affordability: a transaction from  *)
(* an existing account with valid signature, authentication key and        *)
(* current sequence number, within the size bound, whose maximum fee       *)
(* exceeds the sender's balance, is rejected by both call sites            *)
(* GAS_UNIT_PRICE_ABOVE_MAX_BOUND when its price is the maximum plus one   *)
(* (units within bounds), MAX_GAS_UNITS_EXCEEDS_MAX_GAS_UNITS_BOUND when   *)
(* its max gas amount is the maximum plus one (price within bounds), and   *)
(* in neither case INSUFFICIENT_BALANCE_FOR_TRANSACTION_FEE.               *)
(***************************************************************************)
Unaffordable ==
    GenesisAccounts[txn.sender].balance
        < txn.max_gas_amount * txn.gas_unit_price

PriceOneAboveMax == txn.gas_unit_price = max_price_per_gas_unit + 1
UnitsOneAboveMax == txn.max_gas_amount = maximum_number_of_gas_units + 1

C16_GasBoundsBeforeAffordability ==
    (/\ PassesAccountChecks
     /\ Unaffordable
     /\ ~Violates("size", GenesisAccounts, publishing_option)) =>
        /\ (/\ PriceOneAboveMax
            /\ ~Violates("max_gas_units", GenesisAccounts, publishing_option))
              => BothReject("GAS_UNIT_PRICE_ABOVE_MAX_BOUND")
        /\ (/\ UnitsOneAboveMax
            /\ ~Violates("gas_price", GenesisAccounts, publishing_option))
              => BothReject("MAX_GAS_UNITS_EXCEEDS_MAX_GAS_UNITS_BOUND")
        /\ (PriceOneAboveMax \/ UnitsOneAboveMax) =>
              /\ verify_result # "INSUFFICIENT_BALANCE_FOR_TRANSACTION_FEE"
              /\ output.status.code
                    # "INSUFFICIENT_BALANCE_FOR_TRANSACTION_FEE"

\* verify_txn.rs:278-291: more gas units than the maximum at the maximum
\* price, beyond the sender's balance, rejected for the units.
C16_Witness ==
    /\ PassesAccountChecks
    /\ Unaffordable
    /\ UnitsOneAboveMax
    /\ txn.gas_unit_price = max_price_per_gas_unit
    /\ ~Violates("size", GenesisAccounts, publishing_option)
    /\ Executed
    /\ verify_result = "MAX_GAS_UNITS_EXCEEDS_MAX_GAS_UNITS_BOUND"
    /\ output.status.code = "MAX_GAS_UNITS_EXCEEDS_MAX_GAS_UNITS_BOUND"


(***************************************************************************)
(* C17. The size check takes precedence over the max-gas-units check: a    *)
(* transaction passing checks 1-6 whose serialized size exceeds the        *)
(* maximum and whose max gas amount exceeds the maximum number of gas      *)
(* units is rejected EXCEEDED_MAX_TRANSACTION_SIZE by both call sites.     *)
(***************************************************************************)
Oversized == raw_txn_bytes_len(txn) > MAX_TRANSACTION_SIZE_IN_BYTES

UnitsAboveMax == txn.max_gas_amount > maximum_number_of_gas_units

C17_SizeBeforeMaxGasUnits ==
    (PassesAccountChecks /\ Oversized /\ UnitsAboveMax) =>
        BothReject("EXCEEDED_MAX_TRANSACTION_SIZE")

\* verify_txn.rs:293-306: MAX_TRANSACTION_SIZE_IN_BYTES arguments and one
\* gas unit more than the maximum, rejected for the size.
C17_Witness ==
    /\ PassesAccountChecks
    /\ txn.payload.args = OversizedArgs
    /\ Oversized
    /\ UnitsAboveMax
    /\ Executed
    /\ verify_result = "EXCEEDED_MAX_TRANSACTION_SIZE"
    /\ output.status =
          [kind |-> "Discard", code |-> "EXCEEDED_MAX_TRANSACTION_SIZE"]


(***************************************************************************)
(* C18. Gas and size bounds are inclusive.  For a transaction passing      *)
(* checks 1-6, the size check fails exactly when the byte length is        *)
(* strictly above the maximum; within the size bound, the units check      *)
(* fails exactly when max_gas_amount is strictly below the minimum or      *)
(* strictly above the maximum; within both, the price check fails exactly  *)
(* when the price is strictly above the maximum or strictly below the      *)
(* minimum.  A value equal to a bound passes: the maximum price with one   *)
(* gas unit less than the minimum is rejected for the units.               *)
(***************************************************************************)
UnitsCodes ==
    {"MAX_GAS_UNITS_BELOW_MIN_TRANSACTION_GAS_UNITS",
     "MAX_GAS_UNITS_EXCEEDS_MAX_GAS_UNITS_BOUND"}

PriceCodes ==
    {"GAS_UNIT_PRICE_BELOW_MIN_BOUND", "GAS_UNIT_PRICE_ABOVE_MAX_BOUND"}

UnitsOutOfBounds ==
    \/ txn.max_gas_amount < min_transaction_gas_units
    \/ txn.max_gas_amount > maximum_number_of_gas_units

PriceOutOfBounds ==
    \/ txn.gas_unit_price > max_price_per_gas_unit
    \/ txn.gas_unit_price < min_price_per_gas_unit

C18_InclusiveBounds ==
    (Executed /\ PassesAccountChecks) =>
        /\ output.status.code = "EXCEEDED_MAX_TRANSACTION_SIZE" <=> Oversized
        /\ ~Oversized =>
              (output.status.code \in UnitsCodes <=> UnitsOutOfBounds)
        /\ (~Oversized /\ ~UnitsOutOfBounds) =>
              (output.status.code \in PriceCodes <=> PriceOutOfBounds)
        /\ (/\ ~Oversized
            /\ txn.gas_unit_price = max_price_per_gas_unit
            /\ txn.max_gas_amount = min_transaction_gas_units - 1) =>
              output.status.code
                 = "MAX_GAS_UNITS_BELOW_MIN_TRANSACTION_GAS_UNITS"

\* A transaction exactly at the size bound, at the minimum number of gas
\* units and at the maximum price has gone past the size and gas checks.
C18_Witness ==
    /\ PassesAccountChecks
    /\ raw_txn_bytes_len(txn) = MAX_TRANSACTION_SIZE_IN_BYTES
    /\ txn.max_gas_amount = min_transaction_gas_units
    /\ txn.gas_unit_price = max_price_per_gas_unit
    /\ Executed
    /\ output.status.kind = "Keep"


(***************************************************************************)
(* C19. Gas affordability: a transaction passing the checks that come      *)
(* before affordability (checks 1-6, size, max gas units, gas price) is    *)
(* rejected INSUFFICIENT_BALANCE_FOR_TRANSACTION_FEE by both call sites    *)
(* exactly when the sender's balance is strictly less than                 *)
(* max_gas_amount x gas_unit_price; a balance equal to that product        *)
(* passes.                                                                 *)
(***************************************************************************)
PassesChecksBeforeAffordability ==
    \A i \in 1..9 : ~Violates(TestedOrder[i], GenesisAccounts,
                              publishing_option)

C19_GasAffordability ==
    PassesChecksBeforeAffordability =>
        IF GenesisAccounts[txn.sender].balance
              < txn.max_gas_amount * txn.gas_unit_price
        THEN BothReject("INSUFFICIENT_BALANCE_FOR_TRANSACTION_FEE")
        ELSE /\ verify_result # "INSUFFICIENT_BALANCE_FOR_TRANSACTION_FEE"
             /\ output.status.code # "INSUFFICIENT_BALANCE_FOR_TRANSACTION_FEE"

\* A sender whose balance is the maximum fee to the unit has been accepted
\* and its transaction kept.
C19_Witness ==
    /\ PassesChecksBeforeAffordability
    /\ txn.gas_unit_price > 0
    /\ GenesisAccounts[txn.sender].balance
          = txn.max_gas_amount * txn.gas_unit_price
    /\ verify_result = ACCEPTED
    /\ Executed
    /\ output.status.kind = "Keep"


(***************************************************************************)
(* C20. Nonexistent sender: a transaction on the right chain and not       *)
(* expired whose sender address has no account record on the ledger is     *)
(* rejected SENDING_ACCOUNT_DOES_NOT_EXIST by both call sites, whether or  *)
(* not its signature is valid and whatever its sequence number and gas     *)
(* fields are.                                                             *)
(***************************************************************************)
NonexistentSender ==
    /\ txn.chain_id = TESTING
    /\ txn.expiration_time >= CurrentTime
    /\ ~GenesisAccounts[txn.sender].exists

C20_NonexistentSender ==
    NonexistentSender => BothReject("SENDING_ACCOUNT_DOES_NOT_EXIST")

\* A transaction with an invalid signature, a gas price above the maximum
\* and no account behind its sender has been rejected for the sender.
C20_Witness ==
    /\ NonexistentSender
    /\ txn.signature # txn.public_key
    /\ txn.gas_unit_price > max_price_per_gas_unit
    /\ Executed
    /\ verify_result = "SENDING_ACCOUNT_DOES_NOT_EXIST"
    /\ output.status =
          [kind |-> "Discard", code |-> "SENDING_ACCOUNT_DOES_NOT_EXIST"]


(***************************************************************************)
(* C21. Divergence between admission and a later execution, as stated: a   *)
(* transaction that admission accepted on some snapshot and that execution *)
(* discards on that snapshot or on a later one, reached by executing other *)
(* transactions, is discarded SEQUENCE_NUMBER_TOO_OLD or                   *)
(* SEQUENCE_NUMBER_TOO_NEW.                                                *)
(***************************************************************************)
AcceptedThenDiscarded ==
    /\ Executed
    /\ verify_result = ACCEPTED
    /\ output.status.kind = "Discard"

SequenceWindowCodes == {"SEQUENCE_NUMBER_TOO_OLD", "SEQUENCE_NUMBER_TOO_NEW"}

AdmittedAhead ==
    txn.sequence_number
        > admission_snapshot[txn.sender].sequence_number

\* The codes of the checks that follow the sequence-number window.
LaterCheckCodes ==
    {"INSUFFICIENT_BALANCE_FOR_TRANSACTION_FEE",
     "GAS_UNIT_PRICE_BELOW_MIN_BOUND", "GAS_UNIT_PRICE_ABOVE_MAX_BOUND",
     "MAX_GAS_UNITS_BELOW_MIN_TRANSACTION_GAS_UNITS",
     "MAX_GAS_UNITS_EXCEEDS_MAX_GAS_UNITS_BOUND",
     "EXCEEDED_MAX_TRANSACTION_SIZE", "UNKNOWN_SCRIPT",
     "INVALID_MODULE_PUBLISHER"}

BadSignatureAndTooOld ==
    /\ txn.chain_id = TESTING
    /\ txn.expiration_time >= CurrentTime
    /\ GenesisAccounts[txn.sender].exists
    /\ txn.signature # txn.public_key
    /\ txn.sequence_number < GenesisAccounts[txn.sender].sequence_number

C22_SignatureBeforeSequenceNumber ==
    BadSignatureAndTooOld => BothReject("INVALID_SIGNATURE")

\* verify_signature: the sender's public key, another key's signature and
\* sequence number 0, rejected for the signature by both call sites.
C22_Witness ==
    /\ BadSignatureAndTooOld
    /\ AuthenticationKey(txn.public_key)
          = GenesisAccounts[txn.sender].authentication_key
    /\ txn.sequence_number = 0
    /\ Executed
    /\ verify_result = "INVALID_SIGNATURE"
    /\ output.status = [kind |-> "Discard", code |-> "INVALID_SIGNATURE"]


(***************************************************************************)
(* C23. Malformed script under CustomScripts: a Script payload whose bytes *)
(* do not deserialize, from an existing account and passing checks 1-10,   *)
(* is accepted at admission; execution keeps it with                       *)
(* CODE_DESERIALIZATION_ERROR, and the sender's sequence number advances   *)
(* by one.                                                                 *)
(***************************************************************************)
MalformedScriptUnderCustomScripts ==
    /\ ScriptPassingChecks1to10
    /\ publishing_option = "CustomScripts"
    /\ Violates("deserialization", GenesisAccounts, publishing_option)

C23_MalformedScriptKept ==
    MalformedScriptUnderCustomScripts =>
        /\ Verified => verify_result = ACCEPTED
        /\ Executed =>
              /\ output.status =
                    [kind |-> "Keep", code |-> "CODE_DESERIALIZATION_ERROR"]
              /\ accounts[txn.sender].sequence_number =
                    GenesisAccounts[txn.sender].sequence_number + 1

\* test_arbitrary_script_execution: the empty script, accepted and kept.
C23_Witness ==
    /\ MalformedScriptUnderCustomScripts
    /\ txn.payload.code = EMPTY_BYTES
    /\ verify_result = ACCEPTED
    /\ Executed
    /\ output.status.kind # "Discard"
    /\ output.status.code = "CODE_DESERIALIZATION_ERROR"
    /\ accounts[txn.sender].sequence_number =
          GenesisAccounts[txn.sender].sequence_number + 1

(***************************************************************************)
(* C24. Dependency verification is execution-only: a script passing checks *)
(* 1-11 that depends on a stored module failing bytecode verification is   *)
(* accepted at admission, and execution keeps it with a status of type     *)
(* Verification; it is never discarded.                                    *)
(***************************************************************************)
ScriptWithBadDependency ==
    /\ ScriptPassingChecks1to11
    /\ Violates("dependencies", GenesisAccounts, publishing_option)

C24_DependencyVerificationAtExecution ==
    ScriptWithBadDependency =>
        /\ Verified => verify_result = ACCEPTED
        /\ Executed =>
              /\ output.status.kind = "Keep"
              /\ output.status.code \in VerificationCodes
              /\ status_type(output.status.code) = "Verification"

\* test_dependency_fails_verification: under Open, the script importing
\* 0x1.Test is accepted and kept as INVALID_RESOURCE_FIELD.
C24_Witness ==
    /\ ScriptWithBadDependency
    /\ publishing_option = "Open"
    /\ verify_result = ACCEPTED
    /\ Executed
    /\ output.status = [kind |-> "Keep", code |-> "INVALID_RESOURCE_FIELD"]


(***************************************************************************)
(* C25. Whitelist membership is by content hash only: whitelist() is the   *)
(* list of the hashes of the compiled bytes of the scripts of all(), in    *)
(* that order, and is(code_bytes) holds exactly when the hash of           *)
(* code_bytes is the hash of some script of all(), that is, exactly when   *)
(* it is an element of whitelist().                                        *)
(***************************************************************************)
C25_WhitelistByContentHash ==
    /\ ret.fn = "whitelist" =>
          /\ Len(ret.value) = Len(all)
          /\ \A i \in 1..Len(all) :
                ret.value[i] = hash_bytes(call.dir[name(all[i])])
    /\ ret.fn = "is" =>
          /\ ret.value <=>
                \E i \in 1..Len(all) :
                    hash_bytes(call.dir[name(all[i])])
                        = hash_bytes(call.code_bytes)
          /\ ret.value <=>
                \E i \in DOMAIN whitelist_of(call.dir) :
                    whitelist_of(call.dir)[i] = hash_bytes(call.code_bytes)

\* is() has recognised the code of the payment in a directory where the
\* payment's own file holds other code.
C25_Witness ==
    /\ ret.fn = "is"
    /\ ret.value
    /\ call.code_bytes = compiled_bytes("peer_to_peer_with_metadata")
    /\ call.dir["peer_to_peer_with_metadata"] # call.code_bytes


(***************************************************************************)
(* C26. ChainId::from_str on a non-empty string returns the reserved id    *)
(* when the string is one of the names MAINNET, PREMAINNET, TESTNET,       *)
(* DEVNET, TESTING (0, 1, 2, 3, 4); otherwise ChainId(n) when the string   *)
(* is the decimal notation of a number n in 0..255; and an error           *)
(* otherwise.  ChainId::default() is ChainId::test(), the TESTING id 4.    *)
(***************************************************************************)
\* The digits of s, a plus sign in front of them left out.
Unsigned(s) == IF Head(s) = "+" THEN Tail(s) ELSE s

IsDecimal(s) ==
    /\ Len(Unsigned(s)) >= 1
    /\ \A i \in 1..Len(Unsigned(s)) :
          Unsigned(s)[i] \in {"0", "1", "2", "3", "4", "5", "6", "7", "8", "9"}

\* The number whose decimal notation, padded with zeros, is s.
DecimalValue(s) ==
    LET d == Unsigned(s)
    IN  CHOOSE n \in 0..(10 ^ Len(d) - 1) :
            \A i \in 1..Len(d) :
                d[i] = Digits[((n \div (10 ^ (Len(d) - i))) % 10) + 1]

ReservedId(s) ==
    CASE s = <<"M", "A", "I", "N", "N", "E", "T">> -> 0
      [] s = <<"P", "R", "E", "M", "A", "I", "N", "N", "E", "T">> -> 1
      [] s = <<"T", "E", "S", "T", "N", "E", "T">> -> 2
      [] s = <<"D", "E", "V", "N", "E", "T">> -> 3
      [] s = <<"T", "E", "S", "T", "I", "N", "G">> -> 4
      [] OTHER -> -1

C26_ChainIdFromStr ==
    /\ (ret.fn = "from_str" /\ call.s # <<>>) =>
          IF ReservedId(call.s) >= 0
          THEN ret.value = [ok |-> TRUE, id |-> ReservedId(call.s)]
          ELSE IF IsDecimal(call.s) /\ DecimalValue(call.s) <= 255
          THEN ret.value = [ok |-> TRUE, id |-> DecimalValue(call.s)]
          ELSE ~ret.value.ok
    /\ ret.fn = "default" =>
          /\ ret.value = ChainId_test
          /\ ret.value = [ok |-> TRUE, id |-> 4]
          /\ ret.value.id = TESTING

\* from_str("256") has returned an error.
C26_Witness ==
    /\ ret.fn = "from_str"
    /\ call.s = <<"2", "5", "6">>
    /\ ~ret.value.ok



(***************************************************************************)
(* C27. Replay protection.  Across admissions and executions an account's  *)
(* sequence number never decreases, and it changes only by +1, on a kept   *)
(* execution of a transaction whose sequence_number equals it.  A          *)
(* transaction that has been kept is from then on rejected                 *)
(* SEQUENCE_NUMBER_TOO_OLD by admission and discarded with that code by    *)
(* execution, so that no (sender, sequence_number) is kept twice.          *)
(***************************************************************************)
\* A step changes a sequence number only by keeping a transaction of that
\* account at that sequence number.
SequenceNumberStep ==
    \A a \in Senders :
        \/ accounts'[a].sequence_number = accounts[a].sequence_number
        \/ /\ accounts'[a].sequence_number = accounts[a].sequence_number + 1
           /\ Len(ledger') = Len(ledger) + 1
           /\ ledger'[Len(ledger')].status.kind = "Keep"
           /\ ledger'[Len(ledger')].txn.sender = a
           /\ ledger'[Len(ledger')].txn.sequence_number
                 = accounts[a].sequence_number

\* Every transaction kept so far is too old for both gates.
KeptIsTooOld ==
    \A i \in 1..Len(ledger) :
        /\ validate_for_admission(ledger[i].txn, accounts, publishing_option)
              = "SEQUENCE_NUMBER_TOO_OLD"
        /\ validate_for_execution(ledger[i].txn, accounts, publishing_option)
              = [kind |-> "Discard", code |-> "SEQUENCE_NUMBER_TOO_OLD"]

\* No two kept transactions share sender and sequence number.
KeptAtMostOnce ==
    \A i, j \in 1..Len(ledger) :
        (/\ ledger[i].txn.sender = ledger[j].txn.sender
         /\ ledger[i].txn.sequence_number = ledger[j].txn.sequence_number)
            => i = j

C27_ReplayProtection ==
    /\ [][SequenceNumberStep]_vars
    /\ [](KeptIsTooOld /\ KeptAtMostOnce)

\* txn was kept by an earlier execution; admission has then rejected it and
\* execution has discarded it, both SEQUENCE_NUMBER_TOO_OLD, while another
\* transaction of its sender has been kept at the next sequence number.
C27_Witness ==
    /\ Executed
    /\ verify_result = "SEQUENCE_NUMBER_TOO_OLD"
    /\ output.status = [kind |-> "Discard", code |-> "SEQUENCE_NUMBER_TOO_OLD"]
    /\ \E i \in 1..Len(ledger) : ledger[i].txn = txn
    /\ Len(ledger) >= 2
    /\ accounts[txn.sender].sequence_number = txn.sequence_number + 2



(***************************************************************************)
(* C28. Gas debit is covered by the balance.  Whenever execution keeps a   *)
(* transaction, the amount debited for gas is at most max_gas_amount x     *)
(* gas_unit_price, which is at most the sender's balance before the        *)
(* execution; no execution debits any other account, and no balance is     *)
(* ever negative.                                                          *)
(***************************************************************************)
\* What the step takes from the balance of account a.
Debit(a) == accounts[a].balance - accounts'[a].balance

GasDebitStep ==
    \A a \in Senders :
        IF /\ Len(ledger') = Len(ledger) + 1
           /\ ledger'[Len(ledger')].txn.sender = a
        THEN LET t == ledger'[Len(ledger')].txn
             IN  /\ Debit(a) >= 0
                 /\ Debit(a) <= t.max_gas_amount * t.gas_unit_price
                 /\ t.max_gas_amount * t.gas_unit_price <= accounts[a].balance
        ELSE Debit(a) = 0

BalancesNonNegative == \A a \in Senders : accounts[a].balance >= 0

TrueProduct == txn.max_gas_amount * txn.gas_unit_price

\* The balance the gates read: no step before the execution changes it.
BalanceRead == admission_snapshot[txn.sender].balance

\* The product does not fit a u64, and what is left of it is affordable.
WrapsToAffordable ==
    /\ TrueProduct > U64_MAX
    /\ TrueProduct % (U64_MAX + 1) <= BalanceRead

GasFieldsWithinBounds ==
    /\ txn.max_gas_amount >= min_transaction_gas_units
    /\ txn.max_gas_amount <= maximum_number_of_gas_units
    /\ txn.gas_unit_price >= min_price_per_gas_unit
    /\ txn.gas_unit_price <= max_price_per_gas_unit

C29_NoWrapAround ==
    /\ (pc = "verified" /\ verify_result = ACCEPTED)
          => TrueProduct <= BalanceRead
    /\ (Executed /\ output.status.kind = "Keep")
          => TrueProduct <= BalanceRead
    /\ (pc = "verified" /\ TrueProduct > BalanceRead)
          => verify_result # ACCEPTED
    /\ (Executed /\ TrueProduct > BalanceRead)
          => output.status.kind = "Discard"
    /\ (pc = "verified" /\ GasFieldsWithinBounds)
          => (verify_result = "INSUFFICIENT_BALANCE_FOR_TRANSACTION_FEE"
                <=> TrueProduct > BalanceRead)
    /\ (Executed /\ GasFieldsWithinBounds)
          => (output.status.code = "INSUFFICIENT_BALANCE_FOR_TRANSACTION_FEE"
                <=> TrueProduct > BalanceRead)

\* A transaction whose product wraps around to an affordable amount has
\* been rejected by admission and discarded by execution.
C29_Witness ==
    /\ Executed
    /\ WrapsToAffordable
    /\ verify_result \notin {"NONE", ACCEPTED}
    /\ output.status.kind = "Discard"



(***************************************************************************)
(* C30. Script lookup round trip.  all() lists every variant of            *)
(* StdlibScript exactly once, and name() gives distinct variants distinct  *)
(* names.  try_from(code_bytes) returns the first script of all() whose    *)
(* compiled bytes have the hash of code_bytes, and an error when there is  *)
(* none; so for the compiled bytes of a script s it returns s whenever the *)
(* compiled scripts have pairwise distinct hashes.                         *)
(***************************************************************************)
\* The positions in all() of the scripts with the hash of the bytes looked
\* up, in the directory of the call.
Matches ==
    {i \in 1..Len(all) :
        hash_bytes(call.dir[name(all[i])]) = hash_bytes(call.code_bytes)}

PairwiseDistinctHashes ==
    \A v, w \in StdlibScript :
        v # w => hash_bytes(call.dir[name(v)]) # hash_bytes(call.dir[name(w)])

C30_ScriptLookupRoundTrip ==
    /\ Len(all) = Cardinality(StdlibScript)
    /\ \A v \in StdlibScript :
          Cardinality({i \in 1..Len(all) : all[i] = v}) = 1
    /\ \A v, w \in StdlibScript : name(v) = name(w) => v = w
    /\ ret.fn = "try_from" =>
          /\ Matches = {} => ret.value = Err
          /\ Matches # {} =>
                /\ ret.value \in StdlibScript
                /\ \E i \in Matches :
                      /\ ret.value = all[i]
                      /\ \A j \in Matches : i <= j
          /\ \A s \in StdlibScript :
                (/\ call.code_bytes = call.dir[name(s)]
                 /\ PairwiseDistinctHashes)
                    => ret.value = s

\* The compiled bytes of the last script of all() are those of the first
\* as well: the lookup has returned the first.
C30_Witness ==
    /\ ret.fn = "try_from"
    /\ call.code_bytes = call.dir[name(all[Len(all)])]
    /\ call.code_bytes = call.dir[name(all[1])]
    /\ call.code_bytes # call.dir[name("PeerToPeerWithMetadata")]
    /\ ret.value = all[1]

====
